---------------------------- MODULE Spec2Model ----------------------------
(***************************************************************************)
(* A model of the time and task manager: the TimeTracker of                *)
(* src/src/time_tracker.py, the Task/Customer/Department managers of       *)
(* src/src/task_manager.py and the POST routes of src/web_app.py.          *)
(*                                                                         *)
(* Conventions.                                                            *)
(*  - A Python dict is an insertion-ordered sequence of [key, val] pairs.  *)
(*  - Python's None is the empty tuple; an ISO timestamp string is the     *)
(*    one-element tuple holding the instant it denotes, so that            *)
(*    isoformat/fromisoformat wrap and unwrap.                             *)
(*  - An object reference is the key under which the object is stored.     *)
(*    The one reference that can outlive its object's place in a store is  *)
(*    TimeTracker.active_entry: it is None, <<k>> for the object stored    *)
(*    under k, or <<k, object>> for an object with identifier k that the   *)
(*    store no longer holds (load_time_entries replaced the mapping).      *)
(*  - The wall clock counts ticks; TicksPerSecond ticks make one second,   *)
(*    so that int(total_seconds()) really truncates.  The clock is         *)
(*    assumed not to run backwards.                                        *)
(*  - uuid4() draws the next unused identifier of UuidPool.                *)
(*  - The timestamps given to update_time_entry are valid ISO strings, and *)
(*    None for end_time, as the fields' declared types say.                *)
(*  - Every store is used by one instance at a time, as the code assumes,   *)
(*    except the task store, which a second TaskManager may share.         *)
(***************************************************************************)
EXTENDS Integers, Sequences, FiniteSets, TLC

VARIABLES
    now,               \* the wall clock, in ticks
    nuuid,             \* how many uuid4() values have been drawn
    time_entries,      \* TimeTracker.time_entries
    active_entry,      \* TimeTracker.active_entry (None, <<k>> or <<k, object>>)
    te_file,           \* data/time_entries.json (None: no such file)
    tasks,             \* TaskManager.tasks
    tasks_file,        \* data/tasks.json
    other_tasks,       \* the tasks of a second TaskManager over the same file
    customers,         \* CustomerManager.customers
    customers_file,    \* data/customers.json
    departments,       \* DepartmentManager.departments
    departments_file,  \* data/departments.json
    last               \* the most recent call: its name, arguments and result

timerVars == <<time_entries, active_entry, te_file>>
taskVars == <<tasks, tasks_file, other_tasks>>
customerVars == <<customers, customers_file>>
departmentVars == <<departments, departments_file>>
vars == <<now, nuuid, time_entries, active_entry, te_file, tasks, tasks_file,
          other_tasks, customers, customers_file, departments, departments_file, last>>

---------------------------------------------------------------------------
(* Bounds of the model *)

MaxTime == 2
TicksPerSecond == 2
MaxEntries == 2

UuidPool == <<"u1", "u2", "u3", "u4", "u5", "u6", "u7", "u8">>
TaskIds == {"T1", "T2"}
Descriptions == {"design"}
NewDescriptions == {"review"}
Instants == 0..MaxTime

---------------------------------------------------------------------------
(* Python values *)

None == <<>>

isoformat(t) == <<t>>

fromisoformat(s) == s[1]

\* int(x) of a duration of d ticks: whole seconds, truncated towards zero
WholeSeconds(d) ==
    IF d >= 0 THEN d \div TicksPerSecond ELSE -((-d) \div TicksPerSecond)

uuid4 == UuidPool[nuuid + 1]

\* What a call returned: None, a reference to a stored object, a bool, or
\* the exception that left the call.
RetNone == [kind |-> "None", ref |-> ""]
RetRef(k) == [kind |-> "ref", ref |-> k]
\* an object that no store holds, with the identifier k
RetDetached(k) == [kind |-> "detached", ref |-> k]
RetBool(b) == [kind |-> IF b THEN "True" ELSE "False", ref |-> ""]
RetRaise(e) == [kind |-> e, ref |-> ""]
\* what a route answered when it changed nothing
Answered(what) == [kind |-> what, ref |-> ""]

\* the record of a call: the keyword names are kept unless the call found
\* no object to apply them to
Call(op, id, names, ret) ==
    [op |-> op, id |-> id, names |-> IF ret = RetNone THEN {} ELSE names, ret |-> ret]

---------------------------------------------------------------------------
(* dict *)

Keys(d) == {d[i].key : i \in DOMAIN d}

Has(d, k) == k \in Keys(d)

Get(d, k) == d[CHOOSE i \in DOMAIN d : d[i].key = k].val

Put(d, k, v) ==
    IF Has(d, k)
    THEN [i \in DOMAIN d |-> IF d[i].key = k THEN [key |-> k, val |-> v] ELSE d[i]]
    ELSE Append(d, [key |-> k, val |-> v])

\* a faulty variant: a del that removes nothing
Del_Nothing(d, k) == d
\* del d[k]
Del(d, k) == SelectSeq(d, LAMBDA p : p.key # k)

Values(d) == [i \in DOMAIN d |-> d[i].val]

RECURSIVE SumSeq(_)
SumSeq(s) == IF s = <<>> THEN 0 ELSE Head(s) + SumSeq(Tail(s))

---------------------------------------------------------------------------
(* Files.  A file a store wrote is <<content>>, content being the JSON      *)
(* object as json.load returns it: the sequence of its [key, val] pairs,    *)
(* each val the record of one entity.  A file whose bytes are no such       *)
(* document is the pair of its defect and its bytes.                        *)

NotJson == <<"not JSON", "{not json">>

BadEncoding == <<"invalid encoding", "\\xff">>

\* cls(**data) accepts the record: no unknown field, no field without a
\* default missing
constructs(data, fields, defaults) ==
    /\ DOMAIN data \subseteq fields
    /\ (fields \ defaults) \subseteq DOMAIN data

\* the exception raised inside the try block of load_tasks and its like,
\* "" when there is none
load_error(f, fields, defaults) ==
    IF f = None THEN ""
    ELSE IF Len(f) = 2
    THEN (IF f[1] = "not JSON" THEN "JSONDecodeError" ELSE "UnicodeDecodeError")
    ELSE IF \E i \in DOMAIN f[1] : ~constructs(f[1][i].val, fields, defaults)
    THEN "TypeError"
    ELSE ""

\* `except (json.JSONDecodeError, KeyError)`
caught == {"JSONDecodeError", "KeyError"}

\* how the constructor of a store over the file f ends
load_ret(f, fields, defaults) ==
    IF load_error(f, fields, defaults) \in caught \cup {""}
    THEN RetNone
    ELSE RetRaise(load_error(f, fields, defaults))

---------------------------------------------------------------------------
(* TimeEntry and TimeTracker *)

Fields_TimeEntry ==
    {"id", "task_id", "start_time", "end_time", "description", "duration_seconds"}

TimeEntry(id, task_id, start_time, end_time, description, duration_seconds) ==
    [id |-> id, task_id |-> task_id, start_time |-> start_time,
     end_time |-> end_time, description |-> description,
     duration_seconds |-> duration_seconds]

TimeEntry_to_dict(e) ==
    [id |-> e.id, task_id |-> e.task_id, start_time |-> e.start_time,
     end_time |-> e.end_time, description |-> e.description,
     duration_seconds |-> e.duration_seconds]

\* cls(**data); duration_seconds has the default 0
TimeEntry_from_dict(data) ==
    TimeEntry(data.id, data.task_id, data.start_time, data.end_time,
              data.description,
              IF "duration_seconds" \in DOMAIN data THEN data.duration_seconds ELSE 0)

\* the content save_time_entries writes
save_time_entries(te) ==
    <<[i \in DOMAIN te |-> [key |-> te[i].key, val |-> TimeEntry_to_dict(te[i].val)]]>>

\* the mapping load_time_entries builds from the file: nothing when the
\* file is absent or when reading it raised
loaded_time_entries(f) ==
    IF f = None \/ load_error(f, Fields_TimeEntry, {"duration_seconds"}) # ""
    THEN <<>>
    ELSE [i \in DOMAIN f[1] |->
            [key |-> f[1][i].key, val |-> TimeEntry_from_dict(f[1][i].val)]]

\* the first entry, in file order, whose end_time is None
loaded_active_entry(te) ==
    LET open == {i \in DOMAIN te : te[i].val.end_time = None}
    IN IF open = {} THEN None
       ELSE <<te[CHOOSE i \in open : \A j \in open : i <= j].key>>

\* the object self.active_entry refers to
active_object(te, ae) == IF Len(ae) = 2 THEN ae[2] ELSE Get(te, ae[1])

\* the active entry once the mapping it pointed into has been replaced
detached(te, ae) == IF ae = None \/ Len(ae) = 2 THEN ae ELSE <<ae[1], Get(te, ae[1])>>

\* load_time_entries() on the state (te, ae) over the file f.  When the
\* file is absent or reading it raises an exception that is not caught,
\* nothing is assigned.  When the text is not JSON the mapping is emptied
\* and active_entry is left alone.  Otherwise the mapping is replaced by
\* new objects, and active_entry becomes the first open one of them, if
\* there is one, and is left alone, pointing at its old object, if not.
load_time_entries_result(te, ae, f) ==
    LET error == load_error(f, Fields_TimeEntry, {"duration_seconds"})
        te2 == loaded_time_entries(f)
    IN IF f = None \/ error \notin caught \cup {""}
       THEN [te |-> te, ae |-> ae]
       ELSE IF error \in caught
       THEN [te |-> <<>>, ae |-> detached(te, ae)]
       ELSE [te |-> te2,
             ae |-> IF loaded_active_entry(te2) # None
                    THEN loaded_active_entry(te2)
                    ELSE detached(te, ae)]

\* load_time_entries() called on the live instance
load_time_entries ==
    LET r == load_time_entries_result(time_entries, active_entry, te_file)
    IN /\ time_entries' = r.te
       /\ active_entry' = r.ae
       /\ last' = Call("load_time_entries", "", {},
                        load_ret(te_file, Fields_TimeEntry, {"duration_seconds"}))
       /\ UNCHANGED <<now, nuuid, te_file, taskVars, customerVars, departmentVars>>

\* TimeTracker(data_file): a new instance over the file as it is
TimeTracker_init ==
    /\ time_entries' = loaded_time_entries(te_file)
    /\ active_entry' = loaded_active_entry(loaded_time_entries(te_file))
    /\ last' = Call("TimeTracker", "", {},
                     load_ret(te_file, Fields_TimeEntry, {"duration_seconds"}))
    /\ UNCHANGED <<now, nuuid, te_file, taskVars, customerVars, departmentVars>>

\* a faulty variant: start_timer that never stops the running timer
start_timer_must_stop_Never(ae) == FALSE
\* `if self.active_entry:` of start_timer
start_timer_must_stop(ae) == ae # None

\* the entry stop_timer completes at the instant t
stop_timer_completed(e, t) ==
    [e EXCEPT !.end_time = isoformat(t),
              !.duration_seconds = WholeSeconds(t - fromisoformat(e.start_time))]

\* `if not self.active_entry: return None` of stop_timer
stop_timer_is_idle(te, ae) == ae = None

\* a faulty variant: an idle stop_timer that saves the store all the same
stop_timer_idle_Saves(te, ae, f) ==
    [te |-> te, ae |-> ae, file |-> save_time_entries(te), ret |-> RetNone]
\* stop_timer with no timer running: nothing is touched, nothing is saved
stop_timer_idle(te, ae, f) ==
    [te |-> te, ae |-> ae, file |-> f, ret |-> RetNone]

\* stop_timer on the state (te, ae, f), at the instant t
stop_timer_result(te, ae, f, t) ==
    IF stop_timer_is_idle(te, ae)
    THEN stop_timer_idle(te, ae, f)
    ELSE IF Len(ae) = 2
    THEN \* the object is not in the mapping: it is completed and returned,
         \* and the mapping is saved as it is
         [te |-> te, ae |-> None, file |-> save_time_entries(te),
          ret |-> RetDetached(ae[1])]
    ELSE LET k == ae[1]
             te2 == Put(te, k, stop_timer_completed(Get(te, k), t))
         IN [te |-> te2, ae |-> None, file |-> save_time_entries(te2),
             ret |-> RetRef(k)]

stop_timer ==
    LET r == stop_timer_result(time_entries, active_entry, te_file, now)
    IN /\ time_entries' = r.te
       /\ active_entry' = r.ae
       /\ te_file' = r.file
       /\ last' = Call("stop_timer", "", {}, r.ret)
       /\ UNCHANGED <<now, nuuid, taskVars, customerVars, departmentVars>>

\* start_timer reads the clock twice when it stops a running timer: once
\* in stop_timer and once for the new entry, dt ticks later.
start_timer(task_id, description, dt) ==
    LET stopped == IF start_timer_must_stop(active_entry)
                   THEN stop_timer_result(time_entries, active_entry, te_file, now)
                   ELSE [te |-> time_entries, ae |-> active_entry,
                         file |-> te_file, ret |-> RetNone]
        entry_id == uuid4
        time_entry == TimeEntry(entry_id, task_id, isoformat(now + dt), None,
                                description, 0)
        te2 == Put(stopped.te, entry_id, time_entry)
    IN /\ now + dt <= MaxTime
       /\ now' = now + dt
       /\ nuuid' = nuuid + 1
       /\ time_entries' = te2
       /\ active_entry' = <<entry_id>>
       /\ te_file' = save_time_entries(te2)
       /\ last' = Call("start_timer", "", {}, RetRef(entry_id))
       /\ UNCHANGED <<taskVars, customerVars, departmentVars>>

get_active_entry == active_entry

get_time_entries_for_task(task_id) ==
    SelectSeq(Values(time_entries), LAMBDA e : e.task_id = task_id)

\* total_seconds of get_total_time_for_task, before the division by 3600.0
total_seconds_for_task(task_id) ==
    LET entries == get_time_entries_for_task(task_id)
        total == SumSeq([i \in DOMAIN entries |-> entries[i].duration_seconds])
    IN IF active_entry # None /\ active_object(time_entries, active_entry).task_id = task_id
       THEN total + WholeSeconds(now - fromisoformat(
                        active_object(time_entries, active_entry).start_time))
       ELSE total

\* hours, as the fraction num/den
get_total_time_for_task(task_id) ==
    [num |-> total_seconds_for_task(task_id), den |-> 3600]

delete_time_entry(entry_id) ==
    /\ IF Has(time_entries, entry_id)
       THEN LET entry == Get(time_entries, entry_id)
                te2 == Del(time_entries, entry_id)
            IN /\ active_entry' =
                     IF active_entry # None
                        /\ entry = active_object(time_entries, active_entry)
                     THEN None ELSE active_entry
               /\ time_entries' = te2
               /\ te_file' = save_time_entries(te2)
               /\ last' = Call("delete_time_entry", entry_id, {}, RetBool(TRUE))
       ELSE /\ UNCHANGED timerVars
            /\ last' = Call("delete_time_entry", entry_id, {}, RetBool(FALSE))
    /\ UNCHANGED <<now, nuuid, taskVars, customerVars, departmentVars>>

\* Python binds a keyword argument named like a parameter of the method to
\* that parameter: with the positional argument given too, the call raises
\* TypeError before the body runs.
binds(params, kwargs) == (DOMAIN kwargs) \cap params = {}

allowed_fields_TimeEntry == {"description", "start_time", "end_time"}

\* the loop `for field, value in kwargs.items(): if field in allowed_fields
\* and hasattr(entry, field): setattr(entry, field, value)`
apply_fields(obj, kwargs, allowed) ==
    [f \in DOMAIN obj |->
        IF f \in DOMAIN kwargs /\ f \in allowed THEN kwargs[f] ELSE obj[f]]

\* "Recalculate duration if times changed"
recalculated(entry, kwargs) ==
    IF ("start_time" \in DOMAIN kwargs \/ "end_time" \in DOMAIN kwargs)
       /\ entry.end_time # None
    THEN [entry EXCEPT !.duration_seconds =
            WholeSeconds(fromisoformat(entry.end_time) - fromisoformat(entry.start_time))]
    ELSE entry

update_time_entry(entry_id, kwargs) ==
    /\ IF ~binds({"self", "entry_id"}, kwargs)
       THEN /\ UNCHANGED timerVars
            /\ last' = Call("update_time_entry", entry_id, DOMAIN kwargs, RetRaise("TypeError"))
       ELSE IF ~Has(time_entries, entry_id)
       THEN /\ UNCHANGED timerVars
            /\ last' = Call("update_time_entry", entry_id, DOMAIN kwargs, RetNone)
       ELSE LET entry == recalculated(
                    apply_fields(Get(time_entries, entry_id), kwargs,
                                 allowed_fields_TimeEntry), kwargs)
                te2 == Put(time_entries, entry_id, entry)
            IN /\ time_entries' = te2
               /\ UNCHANGED active_entry
               /\ te_file' = save_time_entries(te2)
               /\ last' = Call("update_time_entry", entry_id, DOMAIN kwargs, RetRef(entry_id))
    /\ UNCHANGED <<now, nuuid, taskVars, customerVars, departmentVars>>

---------------------------------------------------------------------------
(* Task, Customer, Department and their managers *)

\* a faulty variant: a Task that takes its id from its customer
Task_IdFromCustomer(id, customer_id, department_id, date, hours, description, created_at, updated_at) ==
    [id |-> customer_id, customer_id |-> customer_id, department_id |-> department_id,
     date |-> date, hours |-> hours, description |-> description,
     created_at |-> created_at, updated_at |-> updated_at]
Task(id, customer_id, department_id, date, hours, description, created_at, updated_at) ==
    [id |-> id, customer_id |-> customer_id, department_id |-> department_id,
     date |-> date, hours |-> hours, description |-> description,
     created_at |-> created_at, updated_at |-> updated_at]

Customer(id, name, email, phone, address, created_at, updated_at) ==
    [id |-> id, name |-> name, email |-> email, phone |-> phone,
     address |-> address, created_at |-> created_at, updated_at |-> updated_at]

Department(id, name, customer_id, description, created_at, updated_at) ==
    [id |-> id, name |-> name, customer_id |-> customer_id,
     description |-> description, created_at |-> created_at,
     updated_at |-> updated_at]

Fields_Task ==
    {"id", "customer_id", "department_id", "date", "hours", "description",
     "created_at", "updated_at"}

Fields_Customer ==
    {"id", "name", "email", "phone", "address", "created_at", "updated_at"}

Fields_Department ==
    {"id", "name", "customer_id", "description", "created_at", "updated_at"}

\* a faulty variant: asdict without the last timestamp
to_dict_Short(obj) == [f \in DOMAIN obj \ {"updated_at"} |-> obj[f]]
\* asdict(self): a dict of the object's fields
to_dict(obj) == [f \in DOMAIN obj |-> obj[f]]

\* cls(**data) of Task, Customer and Department: every field is required
from_dict(data, fields) == [f \in fields |-> data[f]]

\* the mapping load_tasks and its like build from the file: nothing when
\* the file is absent or when reading it raised
loaded_store(f, fields) ==
    IF f = None \/ load_error(f, fields, {}) # ""
    THEN <<>>
    ELSE [i \in DOMAIN f[1] |->
            [key |-> f[1][i].key, val |-> from_dict(f[1][i].val, fields)]]

\* a faulty variant: a save that writes an empty object
save_store_Empty(store) == <<<<>>>>
\* the content save_tasks, save_customers and save_departments write
save_store(store) ==
    <<[i \in DOMAIN store |-> [key |-> store[i].key, val |-> to_dict(store[i].val)]]>>

allowed_fields_Task == {"customer_id", "department_id", "date", "hours", "description"}

allowed_fields_Customer == {"name", "email", "phone", "address"}

allowed_fields_Department == {"name", "customer_id", "description"}

\* a faulty variant: an update that leaves updated_at as it was
refreshed_Never(obj, t) == obj
\* `task.updated_at = datetime.now().isoformat()`
refreshed(obj, t) == [obj EXCEPT !.updated_at = isoformat(t)]

\* update_task, update_customer and update_department share one body:
\* the lookup, the allow-listed loop, the refreshed updated_at, the save.
update_result(store, file, params, id, kwargs, allowed, t) ==
    IF ~binds(params, kwargs)
    THEN [store |-> store, file |-> file, ret |-> RetRaise("TypeError")]
    ELSE IF ~Has(store, id)
    THEN [store |-> store, file |-> file, ret |-> RetNone]
    ELSE LET obj == refreshed(apply_fields(Get(store, id), kwargs, allowed), t)
             store2 == Put(store, id, obj)
         IN [store |-> store2, file |-> save_store(store2), ret |-> RetRef(id)]

\* delete_task, delete_customer and delete_department share one body
delete_result(store, file, id) ==
    IF Has(store, id)
    THEN [store |-> Del(store, id), file |-> save_store(Del(store, id)),
          ret |-> RetBool(TRUE)]
    ELSE [store |-> store, file |-> file, ret |-> RetBool(FALSE)]

\* a faulty variant: a create_task that saves the new task alone
create_task_result_SavesOne(store, task_id, customer_id, department_id, date, hours, description, t) ==
    LET task == Task(task_id, customer_id, department_id, date, hours,
                     description, isoformat(t), isoformat(t))
    IN [store |-> Put(store, task_id, task), file |-> save_store(Put(<<>>, task_id, task)),
        ret |-> RetRef(task_id)]
\* create_task at the instant t, with task_id the uuid4() it drew
create_task_result(store, task_id, customer_id, department_id, date, hours, description, t) ==
    LET task == Task(task_id, customer_id, department_id, date, hours,
                     description, isoformat(t), isoformat(t))
        store2 == Put(store, task_id, task)
    IN [store |-> store2, file |-> save_store(store2), ret |-> RetRef(task_id)]

create_task(customer_id, department_id, date, hours, description) ==
    LET r == create_task_result(tasks, uuid4, customer_id, department_id, date,
                                hours, description, now)
    IN /\ nuuid' = nuuid + 1
       /\ tasks' = r.store
       /\ tasks_file' = r.file
       /\ last' = Call("create_task", "", {}, r.ret)
       /\ UNCHANGED <<now, other_tasks, timerVars, customerVars, departmentVars>>

\* self.tasks.get(task_id): a reference to the stored object, or None
get_task(task_id) == IF Has(tasks, task_id) THEN <<task_id>> ELSE None

get_customer(customer_id) ==
    IF Has(customers, customer_id) THEN <<customer_id>> ELSE None

get_department(department_id) ==
    IF Has(departments, department_id) THEN <<department_id>> ELSE None

\* a faulty variant: a customer is never found to have tasks
get_tasks_by_customer_None(customer_id) == <<>>
\* [task for task in self.tasks.values() if task.customer_id == customer_id]
get_tasks_by_customer(customer_id) ==
    SelectSeq(Values(tasks), LAMBDA task : task.customer_id = customer_id)

\* a faulty variant: a department is never found to have tasks
get_tasks_by_department_None(department_id) == <<>>
get_tasks_by_department(department_id) ==
    SelectSeq(Values(tasks), LAMBDA task : task.department_id = department_id)

get_departments_by_customer(customer_id) ==
    SelectSeq(Values(departments), LAMBDA dept : dept.customer_id = customer_id)

\* what a get returned, as the result of a call
Got(found) == IF found = None THEN RetNone ELSE RetRef(found[1])

update_task(task_id, kwargs) ==
    LET r == update_result(tasks, tasks_file, {"self", "task_id"}, task_id,
                           kwargs, allowed_fields_Task, now)
    IN /\ tasks' = r.store
       /\ tasks_file' = r.file
       /\ last' = Call("update_task", task_id, DOMAIN kwargs, r.ret)
       /\ UNCHANGED <<now, nuuid, other_tasks, timerVars, customerVars, departmentVars>>

delete_task(task_id) ==
    LET r == delete_result(tasks, tasks_file, task_id)
    IN /\ tasks' = r.store
       /\ tasks_file' = r.file
       /\ last' = Call("delete_task", task_id, {}, r.ret)
       /\ UNCHANGED <<now, nuuid, other_tasks, timerVars, customerVars, departmentVars>>

create_customer(name, email, phone, address) ==
    LET customer_id == uuid4
        customer == Customer(customer_id, name, email, phone, address,
                             isoformat(now), isoformat(now))
        customers2 == Put(customers, customer_id, customer)
    IN /\ nuuid' = nuuid + 1
       /\ customers' = customers2
       /\ customers_file' = save_store(customers2)
       /\ last' = Call("create_customer", "", {}, RetRef(customer_id))
       /\ UNCHANGED <<now, timerVars, taskVars, departmentVars>>

update_customer(customer_id, kwargs) ==
    LET r == update_result(customers, customers_file, {"self", "customer_id"},
                           customer_id, kwargs, allowed_fields_Customer, now)
    IN /\ customers' = r.store
       /\ customers_file' = r.file
       /\ last' = Call("update_customer", customer_id, DOMAIN kwargs, r.ret)
       /\ UNCHANGED <<now, nuuid, timerVars, taskVars, departmentVars>>

delete_customer(customer_id) ==
    LET r == delete_result(customers, customers_file, customer_id)
    IN /\ customers' = r.store
       /\ customers_file' = r.file
       /\ last' = Call("delete_customer", customer_id, {}, r.ret)
       /\ UNCHANGED <<now, nuuid, timerVars, taskVars, departmentVars>>

create_department(name, customer_id, description) ==
    LET department_id == uuid4
        department == Department(department_id, name, customer_id, description,
                                 isoformat(now), isoformat(now))
        departments2 == Put(departments, department_id, department)
    IN /\ nuuid' = nuuid + 1
       /\ departments' = departments2
       /\ departments_file' = save_store(departments2)
       /\ last' = Call("create_department", "", {}, RetRef(department_id))
       /\ UNCHANGED <<now, timerVars, taskVars, customerVars>>

update_department(department_id, kwargs) ==
    LET r == update_result(departments, departments_file, {"self", "department_id"},
                           department_id, kwargs, allowed_fields_Department, now)
    IN /\ departments' = r.store
       /\ departments_file' = r.file
       /\ last' = Call("update_department", department_id, DOMAIN kwargs, r.ret)
       /\ UNCHANGED <<now, nuuid, timerVars, taskVars, customerVars>>

delete_department(department_id) ==
    LET r == delete_result(departments, departments_file, department_id)
    IN /\ departments' = r.store
       /\ departments_file' = r.file
       /\ last' = Call("delete_department", department_id, {}, r.ret)
       /\ UNCHANGED <<now, nuuid, timerVars, taskVars, customerVars>>

\* load_tasks(), load_customers() or load_departments() on a store that
\* holds `store`: the constructor empties the mapping before it loads, the
\* method alone does not, so an absent file and an exception that is not
\* caught leave the mapping as it was
reloaded_store(store, f, fields) ==
    IF f = None \/ load_error(f, fields, {}) \notin caught \cup {""}
    THEN store
    ELSE loaded_store(f, fields)

\* load_tasks() called on the live instance
load_tasks ==
    /\ tasks' = reloaded_store(tasks, tasks_file, Fields_Task)
    /\ last' = Call("load_tasks", "", {}, load_ret(tasks_file, Fields_Task, {}))
    /\ UNCHANGED <<now, nuuid, tasks_file, other_tasks, timerVars, customerVars,
                   departmentVars>>

load_customers ==
    /\ customers' = reloaded_store(customers, customers_file, Fields_Customer)
    /\ last' = Call("load_customers", "", {},
                     load_ret(customers_file, Fields_Customer, {}))
    /\ UNCHANGED <<now, nuuid, customers_file, timerVars, taskVars, departmentVars>>

load_departments ==
    /\ departments' = reloaded_store(departments, departments_file, Fields_Department)
    /\ last' = Call("load_departments", "", {},
                     load_ret(departments_file, Fields_Department, {}))
    /\ UNCHANGED <<now, nuuid, departments_file, timerVars, taskVars, customerVars>>

\* TaskManager(data_file): a new instance over the file as it is
TaskManager_init ==
    /\ tasks' = loaded_store(tasks_file, Fields_Task)
    /\ last' = Call("TaskManager", "", {}, load_ret(tasks_file, Fields_Task, {}))
    /\ UNCHANGED <<now, nuuid, tasks_file, other_tasks, timerVars, customerVars,
                   departmentVars>>

\* a second TaskManager over the same file
OtherTaskManager_init ==
    /\ other_tasks' = loaded_store(tasks_file, Fields_Task)
    /\ last' = Call("other TaskManager", "", {}, load_ret(tasks_file, Fields_Task, {}))
    /\ UNCHANGED <<now, nuuid, tasks, tasks_file, timerVars, customerVars,
                   departmentVars>>

CustomerManager_init ==
    /\ customers' = loaded_store(customers_file, Fields_Customer)
    /\ last' = Call("CustomerManager", "", {},
                     load_ret(customers_file, Fields_Customer, {}))
    /\ UNCHANGED <<now, nuuid, customers_file, timerVars, taskVars, departmentVars>>

DepartmentManager_init ==
    /\ departments' = loaded_store(departments_file, Fields_Department)
    /\ last' = Call("DepartmentManager", "", {},
                     load_ret(departments_file, Fields_Department, {}))
    /\ UNCHANGED <<now, nuuid, departments_file, timerVars, taskVars, customerVars>>

\* create_task and delete_task of the second TaskManager
other_create_task(customer_id, department_id, date, hours, description) ==
    LET r == create_task_result(other_tasks, uuid4, customer_id, department_id,
                                date, hours, description, now)
    IN /\ nuuid' = nuuid + 1
       /\ other_tasks' = r.store
       /\ tasks_file' = r.file
       /\ last' = Call("other create_task", "", {}, r.ret)
       /\ UNCHANGED <<now, tasks, timerVars, customerVars, departmentVars>>

other_delete_task(task_id) ==
    LET r == delete_result(other_tasks, tasks_file, task_id)
    IN /\ other_tasks' = r.store
       /\ tasks_file' = r.file
       /\ last' = Call("other delete_task", task_id, {}, r.ret)
       /\ UNCHANGED <<now, nuuid, tasks, timerVars, customerVars, departmentVars>>

\* save_tasks(), save_customers(), save_departments() and
\* save_time_entries() called on their own
save_tasks ==
    /\ tasks_file' = save_store(tasks)
    /\ last' = Call("save_tasks", "", {}, RetNone)
    /\ UNCHANGED <<now, nuuid, tasks, other_tasks, timerVars, customerVars,
                   departmentVars>>

save_customers ==
    /\ customers_file' = save_store(customers)
    /\ last' = Call("save_customers", "", {}, RetNone)
    /\ UNCHANGED <<now, nuuid, customers, timerVars, taskVars, departmentVars>>

save_departments ==
    /\ departments_file' = save_store(departments)
    /\ last' = Call("save_departments", "", {}, RetNone)
    /\ UNCHANGED <<now, nuuid, departments, timerVars, taskVars, customerVars>>

SaveTimeEntries ==
    /\ te_file' = save_time_entries(time_entries)
    /\ last' = Call("save_time_entries", "", {}, RetNone)
    /\ UNCHANGED <<now, nuuid, time_entries, active_entry, taskVars, customerVars,
                   departmentVars>>

---------------------------------------------------------------------------
(* The environment: time passes *)

Tick ==
    /\ now < MaxTime
    /\ now' = now + 1
    /\ last' = Call("tick", "", {}, RetNone)
    /\ UNCHANGED <<nuuid, timerVars, taskVars, customerVars, departmentVars>>

---------------------------------------------------------------------------
(* The calls a client of the TimeTracker makes *)

EntryIds == {UuidPool[i] : i \in 1..MaxEntries}

Kw1(name, values) == {[n \in {name} |-> v] : v \in values}

\* a call with two keywords
Kw2(n1, v1, n2, v2) == [n \in {n1, n2} |-> IF n = n1 THEN v1 ELSE v2]

\* the timestamps a client sets: the first and the last instant of the model
IsoStrings == {isoformat(0), isoformat(MaxTime)}

\* keyword arguments that edit the boundaries of an entry
TimeEntryKwargs ==
    Kw1("start_time", IsoStrings)
    \cup Kw1("end_time", IsoStrings \cup {None})
    \cup {[n \in {"start_time", "end_time"} |-> IF n = "start_time" THEN s ELSE e] :
            s \in IsoStrings, e \in IsoStrings \cup {None}}

Init ==
    /\ now = 0
    /\ nuuid = 0
    /\ time_entries = <<>>
    /\ active_entry = None
    /\ te_file = None
    /\ tasks = <<>>
    /\ tasks_file = None
    /\ other_tasks = <<>>
    /\ customers = <<>>
    /\ customers_file = None
    /\ departments = <<>>
    /\ departments_file = None
    /\ last = Call("init", "", {}, RetNone)

StartTimer ==
    /\ nuuid < MaxEntries
    /\ \E task_id \in TaskIds, description \in Descriptions, dt \in {0, 1} :
          start_timer(task_id, description, dt)

UpdateTimeEntry ==
    \E entry_id \in EntryIds, kwargs \in TimeEntryKwargs :
        update_time_entry(entry_id, kwargs)

DeleteTimeEntry == \E entry_id \in EntryIds : delete_time_entry(entry_id)

\* start_timer and stop_timer alone, on a tracker that starts empty
NextStartStop == Tick \/ StartTimer \/ stop_timer

SpecStartStop == Init /\ [][NextStartStop]_vars

\* every TimeTracker operation, and a restart over the stored file
Next ==
    \/ Tick
    \/ StartTimer
    \/ stop_timer
    \/ UpdateTimeEntry
    \/ DeleteTimeEntry
    \/ load_time_entries
    \/ TimeTracker_init

Spec == Init /\ [][Next]_vars

---------------------------------------------------------------------------
(* The calls a client of the four stores makes, on stores that start empty. *)
(* Every update may carry a field the store lets it set, a field it does    *)
(* not, the name of the method's own parameter, or a name no entity has.    *)

MaxObjects == 2
MaxCoreTime == 1

ObjectIds == {UuidPool[i] : i \in 1..MaxObjects}

\* a timestamp no clock reading of the model produces
Forged == isoformat(0 - 1)

TaskKwargs ==
    Kw1("customer_id", ObjectIds) \cup Kw1("department_id", {"u1"})
    \cup Kw1("date", {"2024-01-01"}) \cup Kw1("hours", {2, 3})
    \cup Kw1("description", Descriptions)
    \cup Kw1("id", {"u0"}) \cup Kw1("created_at", {Forged})
    \cup Kw1("updated_at", {Forged}) \cup Kw1("task_id", {"u0"})
    \cup Kw1("self", {"u0"}) \cup Kw1("colour", {"red"})
    \cup {Kw2("hours", 3, "id", "u0"), Kw2("description", "design", "updated_at", Forged),
          Kw2("hours", 3, "task_id", "u0")}

CustomerKwargs ==
    Kw1("name", {"Acme", "Apex"}) \cup Kw1("email", {""}) \cup Kw1("phone", {""})
    \cup Kw1("address", {""})
    \cup Kw1("id", {"u0"}) \cup Kw1("created_at", {Forged})
    \cup Kw1("updated_at", {Forged}) \cup Kw1("customer_id", {"u0"})
    \cup Kw1("self", {"u0"}) \cup Kw1("colour", {"red"})
    \cup {Kw2("name", "Apex", "created_at", Forged)}

DepartmentKwargs ==
    Kw1("name", {"Eng"}) \cup Kw1("customer_id", ObjectIds)
    \cup Kw1("description", {""})
    \cup Kw1("id", {"u0"}) \cup Kw1("created_at", {Forged})
    \cup Kw1("updated_at", {Forged}) \cup Kw1("department_id", {"u0"})
    \cup Kw1("self", {"u0"}) \cup Kw1("colour", {"red"})
    \cup {Kw2("customer_id", "u2", "id", "u0")}

\* the keywords of update_time_entry: a field it sets, a boundary (which
\* makes it recalculate the duration of a completed entry), a field it does
\* not set, alone or together with a boundary, the name of one of its own
\* parameters, or a name no entry has
TimeEntryFieldKwargs ==
    Kw1("description", Descriptions \cup NewDescriptions)
    \cup Kw1("start_time", {isoformat(0)})
    \cup Kw1("end_time", {None, isoformat(MaxCoreTime * TicksPerSecond)})
    \cup Kw1("id", {"u0"}) \cup Kw1("task_id", {"T2"})
    \cup Kw1("duration_seconds", {7}) \cup Kw1("entry_id", {"u0"})
    \cup Kw1("self", {"u0"}) \cup Kw1("colour", {"red"})
    \cup {Kw2("end_time", isoformat(MaxCoreTime * TicksPerSecond), "duration_seconds", 7),
          Kw2("start_time", isoformat(0), "duration_seconds", 7),
          Kw2("end_time", None, "task_id", "T2"),
          Kw2("description", "review", "entry_id", "u0")}

CreateTask ==
    /\ nuuid < MaxObjects
    /\ \E customer_id \in ObjectIds, hours \in {2} :
          create_task(customer_id, "u1", "2024-01-01", hours, "design")

UpdateTask ==
    \E task_id \in ObjectIds, kwargs \in TaskKwargs : update_task(task_id, kwargs)

DeleteTask == \E task_id \in ObjectIds : delete_task(task_id)

CreateCustomer ==
    /\ nuuid < MaxObjects
    /\ create_customer("Acme", "", "", "")

UpdateCustomer ==
    \E customer_id \in ObjectIds, kwargs \in CustomerKwargs :
        update_customer(customer_id, kwargs)

DeleteCustomer == \E customer_id \in ObjectIds : delete_customer(customer_id)

CreateDepartment ==
    /\ nuuid < MaxObjects
    /\ \E customer_id \in ObjectIds : create_department("Eng", customer_id, "")

UpdateDepartment ==
    \E department_id \in ObjectIds, kwargs \in DepartmentKwargs :
        update_department(department_id, kwargs)

DeleteDepartment ==
    \E department_id \in ObjectIds : delete_department(department_id)

TickCore ==
    /\ now < MaxCoreTime
    /\ Tick

StartTimerCore ==
    /\ nuuid < MaxObjects
    /\ start_timer("T1", "design", 0)

UpdateTimeEntryFields ==
    \E entry_id \in ObjectIds, kwargs \in TimeEntryFieldKwargs :
        update_time_entry(entry_id, kwargs)

DeleteTimeEntryCore == \E entry_id \in ObjectIds : delete_time_entry(entry_id)

\* a lookup changes nothing; its result is recorded
Looked(op, id, found) ==
    /\ last' = Call(op, id, {}, Got(found))
    /\ UNCHANGED <<now, nuuid, timerVars, taskVars, customerVars, departmentVars>>

GetTask == \E task_id \in ObjectIds : Looked("get_task", task_id, get_task(task_id))

GetCustomer ==
    \E customer_id \in ObjectIds :
        Looked("get_customer", customer_id, get_customer(customer_id))

GetDepartment ==
    \E department_id \in ObjectIds :
        Looked("get_department", department_id, get_department(department_id))

NextCore ==
    \/ TickCore
    \/ CreateTask \/ UpdateTask \/ DeleteTask
    \/ CreateCustomer \/ UpdateCustomer \/ DeleteCustomer
    \/ CreateDepartment \/ UpdateDepartment \/ DeleteDepartment
    \/ StartTimerCore \/ stop_timer \/ UpdateTimeEntryFields
    \/ DeleteTimeEntryCore
    \/ GetTask \/ GetCustomer \/ GetDepartment

SpecCore == Init /\ [][NextCore]_vars

---------------------------------------------------------------------------
(* Stores constructed over files they did not write themselves: files that *)
(* hold complete records, a record without one of its fields, a time entry *)
(* without its duration, text that is not JSON, bytes that are not UTF-8.  *)

\* the record without one of its fields
Omit(data, field) == [f \in DOMAIN data \ {field} |-> data[f]]

\* the file that holds the records under the keys
FileOf(keys, records) ==
    <<[i \in DOMAIN keys |-> [key |-> keys[i], val |-> records[i]]]>>

\* the JSON objects of the files: one record for each kind of entity
TaskRecord(id, hours) ==
    [id |-> id, customer_id |-> "c1", department_id |-> "d1",
     date |-> "2024-01-01", hours |-> hours, description |-> "design",
     created_at |-> isoformat(0), updated_at |-> isoformat(1)]

TimeEntryRecord(id, end_time, duration_seconds) ==
    [id |-> id, task_id |-> "T1", start_time |-> isoformat(0),
     end_time |-> end_time, description |-> "design",
     duration_seconds |-> duration_seconds]

CustomerRecord(id) ==
    [id |-> id, name |-> "Acme", email |-> "", phone |-> "", address |-> "",
     created_at |-> isoformat(0), updated_at |-> isoformat(0)]

DepartmentRecord(id) ==
    [id |-> id, name |-> "Eng", customer_id |-> "c1", description |-> "",
     created_at |-> isoformat(0), updated_at |-> isoformat(0)]

TaskFiles ==
    {FileOf(<<"k1", "k2">>, <<TaskRecord("k1", 2), TaskRecord("x", 3)>>),
     FileOf(<<"k1">>, <<Omit(TaskRecord("k1", 2), "description")>>),
     NotJson, BadEncoding}

TimeEntryFiles ==
    {FileOf(<<"k1", "k2">>, <<TimeEntryRecord("k1", isoformat(2), 1),
                              TimeEntryRecord("k2", None, 0)>>),
     FileOf(<<"k1">>, <<Omit(TimeEntryRecord("k1", None, 0), "duration_seconds")>>),
     FileOf(<<"k1">>, <<Omit(TimeEntryRecord("k1", None, 0), "description")>>),
     NotJson, BadEncoding}

CustomerFiles ==
    {FileOf(<<"c1">>, <<CustomerRecord("c1")>>),
     FileOf(<<"c1">>, <<Omit(CustomerRecord("c1"), "email")>>)}

DepartmentFiles ==
    {FileOf(<<"d1">>, <<DepartmentRecord("d1")>>),
     FileOf(<<"d1">>, <<Omit(DepartmentRecord("d1"), "customer_id")>>)}

\* something other than the stores puts a file in place, or removes it
PutFile ==
    /\ \/ \E f \in TaskFiles \cup {None} :
             tasks_file' = f /\ UNCHANGED <<te_file, customers_file, departments_file>>
       \/ \E f \in TimeEntryFiles \cup {None} :
             te_file' = f /\ UNCHANGED <<tasks_file, customers_file, departments_file>>
       \/ \E f \in CustomerFiles \cup {None} :
             customers_file' = f /\ UNCHANGED <<tasks_file, te_file, departments_file>>
       \/ \E f \in DepartmentFiles \cup {None} :
             departments_file' = f /\ UNCHANGED <<tasks_file, te_file, customers_file>>
    /\ last' = Call("put file", "", {}, RetNone)
    /\ UNCHANGED <<now, nuuid, time_entries, active_entry, tasks, other_tasks,
                   customers, departments>>

NextFiles ==
    \/ PutFile
    \/ TaskManager_init \/ CustomerManager_init \/ DepartmentManager_init
    \/ TimeTracker_init
    \/ load_tasks \/ load_customers \/ load_departments \/ load_time_entries
    \/ save_tasks \/ save_customers \/ save_departments \/ SaveTimeEntries

SpecFiles == Init /\ [][NextFiles]_vars

---------------------------------------------------------------------------
(* Two TaskManager instances over one file, each constructed at any time   *)
(* and each creating and deleting tasks.                                   *)

OtherCreateTask ==
    /\ nuuid < MaxObjects
    /\ \E customer_id \in ObjectIds :
          other_create_task(customer_id, "u1", "2024-01-01", 3, "review")

OtherDeleteTask == \E task_id \in ObjectIds : other_delete_task(task_id)

NextTwoWriters ==
    \/ TickCore
    \/ TaskManager_init \/ OtherTaskManager_init
    \/ CreateTask \/ DeleteTask
    \/ OtherCreateTask \/ OtherDeleteTask

SpecTwoWriters == Init /\ [][NextTwoWriters]_vars

---------------------------------------------------------------------------
(* The task routes of the web application.  A form is the record of the    *)
(* submitted fields, each a string ("" when the field is empty or absent). *)

\* text.strip()
strip(text) ==
    CASE text = " " -> ""
      [] text = " Acme" -> "Acme"
      [] text = "Eng " -> "Eng"
      [] text = " u1 " -> "u1"
      [] text = " 2 " -> "2"
      [] text = " core " -> "core"
      [] OTHER -> text

\* float(text): the number a text denotes, whitespace around it ignored;
\* None when float() raises ValueError
float(text) ==
    CASE strip(text) = "0" -> <<0>>
      [] strip(text) = "2" -> <<2>>
      [] strip(text) = "3" -> <<3>>
      [] strip(text) = "-1" -> <<0 - 1>>
      [] OTHER -> None

HoursTexts == {"", " ", "0", " 2 ", "-1", "abc"}

\* an empty field is sent empty or as a blank
Forms ==
    [customer_id : {"", " ", " u1 "}, department_id : {" ", "u2"},
     date : {"", "2024-01-01"}, hours : HoursTexts,
     description : {" ", "design"}]

\* POST /tasks/create
route_create_task(form) ==
    LET customer_id == strip(form.customer_id)
        department_id == strip(form.department_id)
        date == strip(form.date)
        \* float(request.form.get('hours', 0) or 0): the text as submitted
        hours == IF form.hours = "" THEN <<0>> ELSE float(form.hours)
        description == strip(form.description)
    IN /\ IF hours = None
          THEN /\ UNCHANGED <<nuuid, tasks, tasks_file>>
               /\ last' = Call("route_create_task", "", {}, RetRaise("ValueError"))
          ELSE IF \/ customer_id = ""
                  \/ department_id = ""
                  \/ date = ""
                  \/ hours[1] <= 0
          THEN /\ UNCHANGED <<nuuid, tasks, tasks_file>>
               /\ last' = Call("route_create_task", "", {}, Answered("form again"))
          ELSE LET r == create_task_result(tasks, uuid4, customer_id,
                                           department_id, date,
                                           hours[1], description, now)
               IN /\ nuuid' = nuuid + 1
                  /\ tasks' = r.store
                  /\ tasks_file' = r.file
                  /\ last' = Call("route_create_task", "", {}, r.ret)
       /\ UNCHANGED <<now, other_tasks, timerVars, customerVars, departmentVars>>

\* the `updates` dict edit_task builds from the form
edit_task_updates(form) ==
    LET names == {n \in {"customer_id", "department_id", "date"} : strip(form[n]) # ""}
                 \cup (IF strip(form.hours) # "" /\ float(strip(form.hours)) # None
                       THEN {"hours"} ELSE {})
                 \cup {"description"}
    IN [n \in names |->
          IF n = "hours" THEN float(strip(form.hours))[1] ELSE strip(form[n])]

\* POST /tasks/<task_id>/edit
route_edit_task(task_id, form) ==
    /\ IF get_task(task_id) = None
       THEN /\ UNCHANGED <<tasks, tasks_file>>
            /\ last' = Call("route_edit_task", task_id, {}, Answered("not found"))
       ELSE LET updates == edit_task_updates(form)
                r == update_result(tasks, tasks_file, {"self", "task_id"}, task_id,
                                   updates, allowed_fields_Task, now)
            IN /\ tasks' = r.store
               /\ tasks_file' = r.file
               /\ last' = Call("route_edit_task", task_id, DOMAIN updates, r.ret)
    /\ UNCHANGED <<now, nuuid, other_tasks, timerVars, customerVars, departmentVars>>

\* POST /tasks/<task_id>/delete
route_delete_task(task_id) ==
    /\ IF get_task(task_id) = None
       THEN /\ UNCHANGED <<tasks, tasks_file>>
            /\ last' = Call("route_delete_task", task_id, {}, Answered("not found"))
       ELSE LET r == delete_result(tasks, tasks_file, task_id)
            IN /\ tasks' = r.store
               /\ tasks_file' = r.file
               /\ last' = Call("route_delete_task", task_id, {}, r.ret)
    /\ UNCHANGED <<now, nuuid, other_tasks, timerVars, customerVars, departmentVars>>

MaxTasks == 2

RouteCreateTask ==
    /\ nuuid < MaxTasks
    /\ \E form \in Forms : route_create_task(form)

RouteEditTask ==
    \E task_id \in {UuidPool[i] : i \in 1..MaxTasks}, form \in Forms :
        route_edit_task(task_id, form)

NextWeb == TickCore \/ RouteCreateTask \/ RouteEditTask

SpecWeb == Init /\ [][NextWeb]_vars

---------------------------------------------------------------------------
(* The customer and department routes of the web application.  The form of *)
(* create_customer carries the customer's fields and, from department_1    *)
(* onwards, the name and the description of each department to create with *)
(* it.                                                                     *)

\* the departments the loop of create_customer reads, name and description
\* stripped: those before the first name that is empty once stripped
RECURSIVE named_departments(_)
named_departments(fields) ==
    IF fields = <<>> \/ strip(Head(fields).name) = "" THEN <<>>
    ELSE <<[name |-> strip(Head(fields).name),
            description |-> strip(Head(fields).description)]>>
         \o named_departments(Tail(fields))

\* the clock as create_department number i of one request reads it: the
\* reading of create_customer plus the advances before each department
RECURSIVE reading(_, _, _)
reading(t, dts, i) == IF i = 0 THEN t ELSE reading(t, dts, i - 1) + dts[i]

\* POST /customers/create.  create_customer reads the clock once and each
\* create_department reads it again; dts[i] is what the clock has advanced
\* by when department i reads it.
route_create_customer(form, dts) ==
    /\ IF strip(form.name) = ""
       THEN /\ UNCHANGED <<now, nuuid, customerVars, departmentVars>>
            /\ last' = Call("route_create_customer", "", {}, Answered("form again"))
       ELSE LET customer_id == uuid4
                customer == Customer(customer_id, strip(form.name), strip(form.email),
                                     strip(form.phone), strip(form.address),
                                     isoformat(now), isoformat(now))
                customers2 == Put(customers, customer_id, customer)
                names == named_departments(form.departments)
                created == [i \in DOMAIN names |->
                              [key |-> UuidPool[nuuid + 1 + i],
                               val |-> Department(UuidPool[nuuid + 1 + i],
                                                  names[i].name, customer_id,
                                                  names[i].description,
                                                  isoformat(reading(now, dts, i)),
                                                  isoformat(reading(now, dts, i)))]]
                departments2 == departments \o created
            IN /\ now' = reading(now, dts, Len(names))
               /\ nuuid' = nuuid + 1 + Len(names)
               /\ customers' = customers2
               /\ customers_file' = save_store(customers2)
               /\ departments' = departments2
               /\ departments_file' =
                     IF names = <<>> THEN departments_file ELSE save_store(departments2)
               /\ last' = Call("route_create_customer", "", {}, RetRef(customer_id))
    /\ UNCHANGED <<timerVars, taskVars>>

\* the `updates` dict edit_customer builds from the form
edit_customer_updates(form) ==
    LET names == (IF strip(form.name) # "" THEN {"name"} ELSE {})
                 \cup {"email", "phone", "address"}
    IN [n \in names |-> strip(form[n])]

\* POST /customers/<customer_id>/edit
route_edit_customer(customer_id, form) ==
    /\ IF get_customer(customer_id) = None
       THEN /\ UNCHANGED customerVars
            /\ last' = Call("route_edit_customer", customer_id, {}, Answered("not found"))
       ELSE LET updates == edit_customer_updates(form)
                r == update_result(customers, customers_file, {"self", "customer_id"},
                                   customer_id, updates, allowed_fields_Customer, now)
            IN /\ customers' = r.store
               /\ customers_file' = r.file
               /\ last' = Call("route_edit_customer", customer_id, DOMAIN updates, r.ret)
    /\ UNCHANGED <<now, nuuid, timerVars, taskVars, departmentVars>>

\* POST /customers/<customer_id>/delete
route_delete_customer(customer_id) ==
    /\ IF get_customer(customer_id) = None
       THEN /\ UNCHANGED customerVars
            /\ last' = Call("route_delete_customer", customer_id, {}, Answered("not found"))
       ELSE IF \/ get_tasks_by_customer(customer_id) # <<>>
               \/ get_departments_by_customer(customer_id) # <<>>
       THEN /\ UNCHANGED customerVars
            /\ last' = Call("route_delete_customer", customer_id, {}, Answered("refused"))
       ELSE LET r == delete_result(customers, customers_file, customer_id)
            IN /\ customers' = r.store
               /\ customers_file' = r.file
               /\ last' = Call("route_delete_customer", customer_id, {}, r.ret)
    /\ UNCHANGED <<now, nuuid, timerVars, taskVars, departmentVars>>

\* POST /customers/<customer_id>/departments/create
route_create_department(customer_id, form) ==
    /\ IF get_customer(customer_id) = None
       THEN /\ UNCHANGED <<nuuid, departmentVars>>
            /\ last' = Call("route_create_department", customer_id, {},
                            Answered("not found"))
       ELSE IF strip(form.name) = ""
       THEN /\ UNCHANGED <<nuuid, departmentVars>>
            /\ last' = Call("route_create_department", customer_id, {},
                            Answered("form again"))
       ELSE LET department_id == uuid4
                department == Department(department_id, strip(form.name), customer_id,
                                         strip(form.description), isoformat(now),
                                         isoformat(now))
                departments2 == Put(departments, department_id, department)
            IN /\ nuuid' = nuuid + 1
               /\ departments' = departments2
               /\ departments_file' = save_store(departments2)
               /\ last' = Call("route_create_department", customer_id, {},
                               RetRef(department_id))
    /\ UNCHANGED <<now, timerVars, taskVars, customerVars>>

\* the `updates` dict edit_department builds from the form
edit_department_updates(form) ==
    LET names == (IF strip(form.name) # "" THEN {"name"} ELSE {}) \cup {"description"}
    IN [n \in names |-> strip(form[n])]

\* POST /departments/<department_id>/edit
route_edit_department(department_id, form) ==
    /\ IF get_department(department_id) = None
       THEN /\ UNCHANGED departmentVars
            /\ last' = Call("route_edit_department", department_id, {},
                            Answered("not found"))
       ELSE LET updates == edit_department_updates(form)
                r == update_result(departments, departments_file,
                                   {"self", "department_id"}, department_id, updates,
                                   allowed_fields_Department, now)
            IN /\ departments' = r.store
               /\ departments_file' = r.file
               /\ last' = Call("route_edit_department", department_id,
                               DOMAIN updates, r.ret)
    /\ UNCHANGED <<now, nuuid, timerVars, taskVars, customerVars>>

\* POST /departments/<department_id>/delete
route_delete_department(department_id) ==
    /\ IF get_department(department_id) = None
       THEN /\ UNCHANGED departmentVars
            /\ last' = Call("route_delete_department", department_id, {},
                            Answered("not found"))
       ELSE IF get_tasks_by_department(department_id) # <<>>
       THEN /\ UNCHANGED departmentVars
            /\ last' = Call("route_delete_department", department_id, {},
                            Answered("refused"))
       ELSE LET r == delete_result(departments, departments_file, department_id)
            IN /\ departments' = r.store
               /\ departments_file' = r.file
               /\ last' = Call("route_delete_department", department_id, {}, r.ret)
    /\ UNCHANGED <<now, nuuid, timerVars, taskVars, customerVars>>

---------------------------------------------------------------------------
(* The report routes of the web application.  Hours are whole numbers; a   *)
(* percentage is the fraction num/den, which the code computes in floating *)
(* point as (total_hours / total_all_hours) * 100.                         *)

\* sum(task.hours for task in tasks)
sum_hours(list) == SumSeq([i \in DOMAIN list |-> list[i].hours])

\* the 'percentage': 0 a row is created with
NoPercentage == [num |-> 0, den |-> 1]

\* a faulty variant: the share of the total, not multiplied by 100
percentage_Share(total_hours, total_all_hours) ==
    [num |-> total_hours, den |-> total_all_hours]
\* (item['total_hours'] / total_all_hours) * 100
percentage(total_hours, total_all_hours) ==
    [num |-> total_hours * 100, den |-> total_all_hours]

\* a faulty variant: the rows are left in the order of the store
sort_by_hours_Unsorted(rows) == rows
\* rows.sort(key=lambda x: x['total_hours'], reverse=True): a stable sort,
\* rows of equal hours keep their order
RECURSIVE sort_by_hours(_)
sort_by_hours(rows) ==
    IF rows = <<>> THEN <<>>
    ELSE LET n == Len(rows)
             before == sort_by_hours(SubSeq(rows, 1, n - 1))
             ahead == {i \in DOMAIN before :
                          before[i].total_hours >= rows[n].total_hours}
             k == Cardinality(ahead)
         IN SubSeq(before, 1, k) \o <<rows[n]>> \o SubSeq(before, k + 1, n - 1)

\* what a report route hands to its template
Rendered(rows, total_hours) ==
    [kind |-> "rows", ref |-> "", rows |-> rows, total_hours |-> total_hours]

\* a faulty variant: every group is listed and the percentages are computed
\* without a look at the total
report_of_Naive(groups) ==
    LET data == [i \in DOMAIN groups |->
                    groups[i].label @@
                    [total_hours |-> sum_hours(groups[i].tasks),
                     task_count |-> Len(groups[i].tasks),
                     percentage |-> NoPercentage]]
        sorted == sort_by_hours(data)
        total_all_hours == SumSeq([i \in DOMAIN sorted |-> sorted[i].total_hours])
    IN IF sorted # <<>> /\ total_all_hours = 0
       THEN RetRaise("ZeroDivisionError")
       ELSE Rendered([i \in DOMAIN sorted |->
                        [sorted[i] EXCEPT !.percentage =
                            percentage(sorted[i].total_hours, total_all_hours)]],
                     total_all_hours)
\* the body that report_customers and report_departments share: the groups
\* with positive hours, sorted by hours, each with its percentage of the
\* total when the total is positive
report_of(groups) ==
    LET data == SelectSeq([i \in DOMAIN groups |->
                              groups[i].label @@
                              [total_hours |-> sum_hours(groups[i].tasks),
                               task_count |-> Len(groups[i].tasks),
                               percentage |-> NoPercentage]],
                          LAMBDA row : row.total_hours > 0)
        sorted == sort_by_hours(data)
        total_all_hours == SumSeq([i \in DOMAIN sorted |-> sorted[i].total_hours])
    IN IF total_all_hours > 0
       THEN Rendered([i \in DOMAIN sorted |->
                        [sorted[i] EXCEPT !.percentage =
                            percentage(sorted[i].total_hours, total_all_hours)]],
                     total_all_hours)
       ELSE Rendered(sorted, total_all_hours)

\* customer.name if customer else 'Unknown'
customer_name_of(customer_id) ==
    IF Has(customers, customer_id) THEN Get(customers, customer_id).name
    ELSE "Unknown"

\* GET /reports/customers
report_customers ==
    LET groups == [i \in DOMAIN customers |->
                     [label |-> [customer |-> customers[i].val.name],
                      tasks |-> get_tasks_by_customer(customers[i].val.id)]]
    IN /\ last' = Call("report_customers", "", {}, report_of(groups))
       /\ UNCHANGED <<now, nuuid, timerVars, taskVars, customerVars, departmentVars>>

\* GET /reports/departments
report_departments ==
    LET groups == [i \in DOMAIN departments |->
                     [label |-> [department |-> departments[i].val.name,
                                 customer |-> customer_name_of(
                                                 departments[i].val.customer_id)],
                      tasks |-> get_tasks_by_department(departments[i].val.id)]]
    IN /\ last' = Call("report_departments", "", {}, report_of(groups))
       /\ UNCHANGED <<now, nuuid, timerVars, taskVars, customerVars, departmentVars>>

\* Line 40 of cli_interface.py ends in a backslash that joins it to line 41
\* (print(...) sys.exit(0)): Python rejects the module with a SyntaxError
\* when it is imported, so no method of CLIInterface can be called.
cli_interface_compiles == FALSE

\* The reports of the console interface, report_by_customer and
\* report_by_project.  The module does not compile; its text asks the
\* TaskManager for get_customers() or get_projects(), which TaskManager does
\* not define; after that it takes the time each group was found to have
\* spent: the groups with positive time, sorted by time, each with its
\* percentage of their total.
cli_report_of(op, times) ==
    LET TaskManager_methods ==
            {"load_tasks", "save_tasks", "create_task", "get_task", "get_all_tasks",
             "get_tasks_by_customer", "get_tasks_by_department", "update_task",
             "delete_task"}
        groups_method == IF op = "report_by_customer" THEN "get_customers"
                         ELSE "get_projects"
        none_found == IF op = "report_by_customer" THEN "No customers found."
                      ELSE "No projects found."
        data == SelectSeq([i \in DOMAIN times |->
                              [total_hours |-> times[i], percentage |-> NoPercentage]],
                          LAMBDA row : row.total_hours > 0)
        sorted == sort_by_hours(data)
        total_all_time == SumSeq([i \in DOMAIN sorted |-> sorted[i].total_hours])
    IN IF ~cli_interface_compiles THEN RetRaise("SyntaxError")
       ELSE IF groups_method \notin TaskManager_methods THEN RetRaise("AttributeError")
       ELSE IF times = <<>> THEN Answered(none_found)
       ELSE IF data = <<>> THEN Answered("No time entries found.")
       ELSE IF total_all_time = 0 THEN RetRaise("ZeroDivisionError")
       ELSE Rendered([i \in DOMAIN sorted |->
                        [sorted[i] EXCEPT !.percentage =
                            percentage(sorted[i].total_hours, total_all_time)]],
                     total_all_time)

cli_report(op, times) ==
    /\ last' = Call(op, "", {}, cli_report_of(op, times))
    /\ UNCHANGED <<now, nuuid, timerVars, taskVars, customerVars, departmentVars>>

---------------------------------------------------------------------------
(* Reports over stores filled through the managers: customers first, then  *)
(* departments, then tasks, whose hours may be zero or negative and whose  *)
(* customer and department need not exist.                                 *)

MaxReportGroups == 2
MaxReportTasks == 2

ReportCreateCustomer ==
    /\ departments = <<>> /\ tasks = <<>>
    /\ Len(customers) < MaxReportGroups
    /\ \E name \in {"Acme", "Apex"} : create_customer(name, "", "", "")

ReportCreateDepartment ==
    /\ tasks = <<>>
    /\ Len(departments) < MaxReportGroups
    /\ \E customer_id \in {"u1", "u9"} : create_department("Eng", customer_id, "")

ReportCreateTask ==
    /\ Len(tasks) < MaxReportTasks
    /\ \E customer_id \in {"u1", "u2"}, department_id \in {"u3", "u4"},
          hours \in {0 - 2, 0, 2, 3} :
          create_task(customer_id, department_id, "2024-01-01", hours, "design")

\* the seconds the console reports may find for up to two groups
ReportTimes ==
    {<<>>} \cup {<<a>> : a \in {0 - 1, 0, 1}}
    \cup {<<a, b>> : a \in {0 - 1, 0, 1}, b \in {0 - 1, 0, 1, 3}}

CliReportByCustomer ==
    \E times \in ReportTimes : cli_report("report_by_customer", times)

CliReportByProject ==
    \E times \in ReportTimes : cli_report("report_by_project", times)

NextReports ==
    \/ ReportCreateCustomer \/ ReportCreateDepartment \/ ReportCreateTask
    \/ report_customers \/ report_departments
    \/ CliReportByCustomer \/ CliReportByProject

SpecReports == Init /\ [][NextReports]_vars

---------------------------------------------------------------------------
(* The requests a browser sends to the routes, one at a time, on stores    *)
(* that start empty.  No route looks at the clock but to stamp an entity;  *)
(* the clock advances only within the one request that reads it more than  *)
(* once, create_customer with departments.                                 *)

MaxWebObjects == 3
MaxRouteTime == 1

\* what the clock may advance by before each of n further readings of one
\* request
ClockAdvances(n) == [1..n -> 0..1]

WebIds == {UuidPool[i] : i \in 1..MaxWebObjects}

CustomerForms ==
    [name : {"", " ", " Acme"}, email : {""}, phone : {""}, address : {""},
     departments : {<<>>,
                    <<[name |-> "Eng ", description |-> " core "]>>,
                    <<[name |-> " ", description |-> "core"],
                      [name |-> "Eng ", description |-> ""]>>,
                    <<[name |-> "Eng ", description |-> "core"],
                      [name |-> "Ops", description |-> "apps"]>>}]

CustomerEditForms ==
    [name : {"", "Apex"}, email : {""}, phone : {""}, address : {""}]

DepartmentForms == [name : {"", "Eng "}, description : {""}]

DepartmentEditForms == [name : {"", "Ops"}, description : {""}]

TaskForms ==
    [customer_id : {" ", " u1 "} \cup (WebIds \ {"u1"}),
     department_id : {" "} \cup WebIds,
     date : {"2024-01-01"}, hours : {"2"}, description : {"design"}]

TaskEditForms ==
    [customer_id : {"", " ", " u1 "} \cup (WebIds \ {"u1"}),
     department_id : {""} \cup WebIds,
     date : {""}, hours : {""}, description : {"design"}]

PostCreateCustomer ==
    \E form \in CustomerForms :
        /\ nuuid + 1 + Len(named_departments(form.departments)) <= MaxWebObjects
        /\ \E dts \in ClockAdvances(Len(named_departments(form.departments))) :
              /\ reading(now, dts, Len(named_departments(form.departments)))
                    <= MaxRouteTime
              /\ route_create_customer(form, dts)

PostEditCustomer ==
    \E customer_id \in WebIds, form \in CustomerEditForms :
        route_edit_customer(customer_id, form)

PostDeleteCustomer == \E customer_id \in WebIds : route_delete_customer(customer_id)

PostCreateDepartment ==
    /\ nuuid < MaxWebObjects
    /\ \E customer_id \in WebIds, form \in DepartmentForms :
          route_create_department(customer_id, form)

PostEditDepartment ==
    \E department_id \in WebIds, form \in DepartmentEditForms :
        route_edit_department(department_id, form)

PostDeleteDepartment ==
    \E department_id \in WebIds : route_delete_department(department_id)

PostCreateTask ==
    /\ nuuid < MaxWebObjects
    /\ \E form \in TaskForms : route_create_task(form)

PostEditTask ==
    \E task_id \in WebIds, form \in TaskEditForms : route_edit_task(task_id, form)

PostDeleteTask == \E task_id \in WebIds : route_delete_task(task_id)

NextRoutes ==
    \/ PostCreateCustomer \/ PostEditCustomer \/ PostDeleteCustomer
    \/ PostCreateDepartment \/ PostEditDepartment \/ PostDeleteDepartment
    \/ PostCreateTask \/ PostEditTask \/ PostDeleteTask

SpecRoutes == Init /\ [][NextRoutes]_vars

---------------------------------------------------------------------------
(* Properties of the TimeTracker *)

OpenKeys(te) == {te[i].key : i \in {j \in DOMAIN te : te[j].val.end_time = None}}

\* C1: starting from an empty TimeTracker, after any sequence of start_timer
\* and stop_timer calls at most one entry has end_time None.
C1_AtMostOneOpenAfterStartStop == Cardinality(OpenKeys(time_entries)) <= 1

\* a second timer was started while the first was running
C1_Witness ==
    /\ last.op = "start_timer"
    /\ Len(time_entries) = 2
    /\ time_entries[1].val.end_time # None
    /\ time_entries[2].val.end_time = None

\* C2: in every state reachable through all TimeTracker operations, at most
\* one entry of the store (in memory and in the stored file) has end_time None.
C2_AtMostOneOpen ==
    /\ \A i, j \in DOMAIN time_entries :
          (time_entries[i].val.end_time = None /\ time_entries[j].val.end_time = None)
              => i = j
    /\ te_file # None =>
          \A i, j \in DOMAIN te_file[1] :
              (te_file[1][i].val.end_time = None /\ te_file[1][j].val.end_time = None)
                  => i = j

\* C3: start_timer called while an entry is running closes that entry
\* (end_time set, duration_seconds = end - start in whole seconds, >= 0),
\* then opens a new one; afterwards the new entry is the only one with
\* end_time None and the store holds one entry more.
C3_StartWhileRunning ==
    [][(last'.op = "start_timer" /\ active_entry # None) =>
          LET closed == Get(time_entries', active_entry[1])
          IN /\ Has(time_entries', active_entry[1])
             /\ closed.end_time # None
             /\ closed.duration_seconds =
                  WholeSeconds(fromisoformat(closed.end_time)
                               - fromisoformat(closed.start_time))
             /\ closed.duration_seconds >= 0
             /\ OpenKeys(time_entries') = {last'.ret.ref}
             /\ Len(time_entries') = Len(time_entries) + 1]_vars

\* C4: stop_timer on a running timer sets the running entry's end_time to
\* the current time and its duration_seconds to end - start in whole
\* seconds, leaves no active entry, saves the store and returns that entry;
\* nothing else of the store changes.
C4_StopWhileRunning ==
    [][(last'.op = "stop_timer" /\ active_entry # None) =>
          LET k == active_entry[1]
              before == Get(time_entries, k)
              after == Get(time_entries', k)
          IN /\ Has(time_entries, k)
             /\ last'.ret = RetRef(k)
             /\ after.end_time = isoformat(now)
             /\ after.duration_seconds =
                  WholeSeconds(now - fromisoformat(before.start_time))
             /\ after = [before EXCEPT !.end_time = after.end_time,
                                       !.duration_seconds = after.duration_seconds]
             /\ active_entry' = None
             /\ Len(time_entries') = Len(time_entries)
             /\ \A i \in DOMAIN time_entries :
                   /\ time_entries'[i].key = time_entries[i].key
                   /\ time_entries[i].key # k => time_entries'[i] = time_entries[i]
             /\ te_file' # None
             /\ loaded_time_entries(te_file') = time_entries']_vars

\* C5: stop_timer with no active entry returns None and leaves
\* time_entries, active_entry and the stored file as they were.
C5_StopWhileIdle ==
    [][(last'.op = "stop_timer" /\ active_entry = None) =>
          /\ last'.ret = RetNone
          /\ time_entries' = time_entries
          /\ active_entry' = active_entry
          /\ te_file' = te_file]_vars

\* stop_timer returned None on a store that holds entries
C5_Witness ==
    /\ last.op = "stop_timer"
    /\ last.ret.kind = "None"
    /\ Len(time_entries) >= 1
    /\ active_entry = None

\* what C6 says get_total_time_for_task counts, in seconds: the durations
\* of the completed entries of the task, and the running entry's live time
C6_Claimed(task_id) ==
    LET done == SelectSeq(Values(time_entries),
                          LAMBDA e : e.task_id = task_id /\ e.end_time # None)
        running == {k \in OpenKeys(time_entries) :
                       /\ active_entry = <<k>>
                       /\ Get(time_entries, k).task_id = task_id}
    IN SumSeq([i \in DOMAIN done |-> done[i].duration_seconds])
       + (IF running = {} THEN 0
          ELSE LET k == CHOOSE x \in running : TRUE
               IN WholeSeconds(now - fromisoformat(Get(time_entries, k).start_time)))

\* C6: get_total_time_for_task(t) is the sum of duration_seconds over the
\* completed entries of t, plus now - start of the running entry if and only
\* if that entry belongs to t; nothing is counted twice.
C6_TotalTime ==
    \A t \in TaskIds :
        get_total_time_for_task(t) = [num |-> C6_Claimed(t), den |-> 3600]

\* C7: after update_time_entry changed start_time, end_time or both, the
\* entry's duration_seconds is end - start in whole seconds of its resulting
\* boundaries, and an entry left with end_time None carries no stale duration.
C7_UpdateRecomputes ==
    (/\ last.op = "update_time_entry"
     /\ last.ret.kind = "ref"
     /\ last.names \cap {"start_time", "end_time"} # {})
    => LET e == Get(time_entries, last.id)
       IN IF e.end_time # None
          THEN e.duration_seconds =
                 WholeSeconds(fromisoformat(e.end_time) - fromisoformat(e.start_time))
          ELSE e.duration_seconds = 0

\* C8: in every reachable state every entry's duration_seconds is >= 0.
C8_DurationsNonNegative ==
    \A i \in DOMAIN time_entries : time_entries[i].val.duration_seconds >= 0

---------------------------------------------------------------------------
(* Properties of the task routes and of the stores' update methods *)

\* C9: in every state reachable through the create_task and edit_task
\* routes, every stored Task has hours >= 0.
C9_HoursNonNegative ==
    \A i \in DOMAIN tasks : tasks[i].val.hours >= 0

\* What an update of an existing id in one store does with each name it was
\* given that is outside the allow-list: the call raises nothing and returns
\* the object, the object keeps its fields, and each such field keeps its
\* value.  Two fields are moved by the update itself and never take the
\* value given: updated_at of a Task, Customer or Department becomes the
\* current time, and duration_seconds of a completed TimeEntry is
\* recalculated from its boundaries when the call carries one of them.
C10_Kept(op, store, store2, allowed, stamped) ==
    (last'.op = op /\ last'.names \ allowed # {} /\ Has(store, last'.id)) =>
        /\ last'.ret = RetRef(last'.id)
        /\ Has(store2, last'.id)
        /\ LET old == Get(store, last'.id)
               new == Get(store2, last'.id)
           IN /\ DOMAIN new = DOMAIN old
              /\ \A f \in (last'.names \ allowed) \cap DOMAIN old :
                    IF stamped /\ f = "updated_at"
                    THEN new[f] = isoformat(now)
                    ELSE IF f = "duration_seconds"
                            /\ last'.names \cap {"start_time", "end_time"} # {}
                            /\ new.end_time # None
                    THEN new[f] = WholeSeconds(fromisoformat(new.end_time)
                                               - fromisoformat(new.start_time))
                    ELSE new[f] = old[f]

\* C10: for every store and every existing id, an update call carrying a
\* field name outside the store's allow-list (id, created_at, updated_at,
\* task_id, duration_seconds, the name of a parameter of the method, an
\* unknown name) raises no error and leaves that field's value unchanged;
\* the refresh of updated_at and the recalculation of duration_seconds that
\* the update itself performs are not counted as changes.
C10_ForbiddenFieldsKept ==
    [][/\ C10_Kept("update_task", tasks, tasks', allowed_fields_Task, TRUE)
       /\ C10_Kept("update_customer", customers, customers',
                   allowed_fields_Customer, TRUE)
       /\ C10_Kept("update_department", departments, departments',
                   allowed_fields_Department, TRUE)
       /\ C10_Kept("update_time_entry", time_entries, time_entries',
                   allowed_fields_TimeEntry, FALSE)]_vars

---------------------------------------------------------------------------
(* Properties of the Task, Customer and Department stores *)

\* what one step does to the timestamps of one store: a successful update
\* keeps the object's created_at and sets its updated_at to the current
\* time, and afterwards no object was updated before it was created
C11_Stamps(op, store, store2) ==
    /\ (last'.op = op /\ last'.ret.kind = "ref") =>
          /\ Get(store2, last'.id).created_at = Get(store, last'.id).created_at
          /\ Get(store2, last'.id).updated_at = isoformat(now')
    /\ \A i \in DOMAIN store2 :
          fromisoformat(store2[i].val.updated_at)
              >= fromisoformat(store2[i].val.created_at)

\* C11: for Task, Customer and Department, no update changes created_at,
\* every successful update (also one that carries no allowed field) sets
\* updated_at to the current time, and updated_at >= created_at in every
\* reachable state.
C11_Timestamps ==
    [][/\ C11_Stamps("update_task", tasks, tasks')
       /\ C11_Stamps("update_customer", customers, customers')
       /\ C11_Stamps("update_department", departments, departments')]_vars

\* a customer created at 0 was updated at 1 by a call that carried no
\* allowed field
C11_Witness ==
    /\ last.op = "update_customer"
    /\ last.ret.kind = "ref"
    /\ last.names \cap allowed_fields_Customer = {}
    /\ Get(customers, last.id).created_at = isoformat(0)
    /\ Get(customers, last.id).updated_at = isoformat(1)

\* what one step leaves of the identifiers of one store: every key is the id
\* of the object stored under it, no two objects share an id, and a
\* successful update kept the id of the object it updated
C12_Ids(op, store, store2) ==
    /\ \A i \in DOMAIN store2 : store2[i].key = store2[i].val.id
    /\ \A i, j \in DOMAIN store2 :
          store2[i].val.id = store2[j].val.id => i = j
    /\ (last'.op = op /\ last'.ret.kind = "ref") =>
          Get(store2, last'.id).id = Get(store, last'.id).id

\* C12: after any sequence of create, update and delete calls on a store,
\* every mapping key equals the id of the entity stored under it, no two
\* entities of the store share an id, and no update changes an entity's id.
C12_IdsUniqueAndKept ==
    [][/\ C12_Ids("update_task", tasks, tasks')
       /\ C12_Ids("update_customer", customers, customers')
       /\ C12_Ids("update_department", departments, departments')
       /\ C12_Ids("update_time_entry", time_entries, time_entries')]_vars

\* update_task was given an id for a task that is stored beside another
C12_Witness ==
    /\ last.op = "update_task"
    /\ last.names = {"id"}
    /\ last.ret.kind = "ref"
    /\ Len(tasks) = 2
    /\ tasks[1].val.id # tasks[2].val.id

\* What a get, an update or a delete of one store does with an identifier
\* the store does not hold: the mapping and the file stay as they were, get
\* and update return None and delete returns False; nothing is raised.
C13_Absent(getop, updop, delop, store, store2, file, file2) ==
    (last'.op \in {getop, updop, delop} /\ ~Has(store, last'.id)) =>
        /\ store2 = store
        /\ file2 = file
        /\ last'.op = getop => last'.ret = RetNone
        /\ last'.op = updop => last'.ret = RetNone
        /\ last'.op = delop => last'.ret = RetBool(FALSE)

\* C13: for every store, get, update and delete called with an identifier
\* that is not in the store return None, None and False, raise no exception
\* and leave the in-memory mapping and the stored file unchanged (nothing is
\* written).
C13_AbsentIdentifier ==
    [][/\ C13_Absent("get_task", "update_task", "delete_task", tasks, tasks',
                      tasks_file, tasks_file')
       /\ C13_Absent("get_customer", "update_customer", "delete_customer",
                      customers, customers', customers_file, customers_file')
       /\ C13_Absent("get_department", "update_department", "delete_department",
                      departments, departments', departments_file,
                      departments_file')
       /\ C13_Absent("no get", "update_time_entry", "delete_time_entry",
                      time_entries, time_entries', te_file, te_file')]_vars

---------------------------------------------------------------------------
(* Properties of loading and saving *)

\* the file is there and is malformed for a store with these fields: it is
\* not JSON, not UTF-8, or holds a record that lacks a required field
Malformed(f, fields, defaults) ==
    /\ f # None
    /\ \/ Len(f) = 2
       \/ \E i \in DOMAIN f[1] : ~((fields \ defaults) \subseteq DOMAIN f[1][i].val)

\* the constructor of one store, over a malformed file, raises nothing and
\* leaves the store empty
C14_Survives(op, f, fields, defaults, store2) ==
    (last'.op = op /\ Malformed(f, fields, defaults)) =>
        /\ last'.ret = RetNone
        /\ store2 = <<>>

\* C14: constructing a store over a backing file that is not valid JSON, is
\* invalidly encoded or holds a record missing a required field never
\* raises: the error is caught and the store starts with an empty mapping.
C14_MalformedFileGivesEmptyStore ==
    [][/\ C14_Survives("TaskManager", tasks_file, Fields_Task, {}, tasks')
       /\ C14_Survives("CustomerManager", customers_file, Fields_Customer, {},
                        customers')
       /\ C14_Survives("DepartmentManager", departments_file, Fields_Department,
                        {}, departments')
       /\ C14_Survives("TimeTracker", te_file, Fields_TimeEntry,
                        {"duration_seconds"}, time_entries')]_vars

\* a valid store file: a JSON object of complete entity records
Complete(f, fields) ==
    /\ f # None
    /\ Len(f) = 1
    /\ \A i \in DOMAIN f[1] : DOMAIN f[1][i].val = fields

\* a store that was just constructed over the valid file f and is saved
\* at once writes f again
C15_RoundTrip(loadop, saveop, f, f2, fields) ==
    (last.op = loadop /\ last'.op = saveop /\ Complete(f, fields)) => f2 = f

\* C15: for any valid store file f, loading f and then saving without any
\* mutation writes a file with exactly the keys and the field values of f.
C15_SaveOfLoadIsTheFile ==
    [][/\ C15_RoundTrip("TaskManager", "save_tasks", tasks_file, tasks_file',
                         Fields_Task)
       /\ C15_RoundTrip("CustomerManager", "save_customers", customers_file,
                         customers_file', Fields_Customer)
       /\ C15_RoundTrip("DepartmentManager", "save_departments",
                         departments_file, departments_file', Fields_Department)
       /\ C15_RoundTrip("TimeTracker", "save_time_entries", te_file, te_file',
                         Fields_TimeEntry)]_vars

\* a file of two tasks, one stored under a key that is not its id, was
\* loaded and saved
C15_Witness ==
    /\ last.op = "save_tasks"
    /\ Complete(tasks_file, Fields_Task)
    /\ tasks_file \in TaskFiles
    /\ Len(tasks) = 2
    /\ tasks[2].key # tasks[2].val.id
    /\ tasks = loaded_store(tasks_file, Fields_Task)

\* the file holds the mapping: the same keys in the same order, and under
\* each key every field of the object with its value
FileHolds(f, store) ==
    /\ f # None
    /\ Len(f) = 1
    /\ Len(f[1]) = Len(store)
    /\ \A i \in DOMAIN store :
          /\ f[1][i].key = store[i].key
          /\ DOMAIN f[1][i].val = DOMAIN store[i].val
          /\ \A x \in DOMAIN store[i].val : f[1][i].val[x] = store[i].val[x]

\* a write by one of two instances over the same file leaves in the file
\* exactly the writer's mapping, and nothing that only the other instance holds
C16_Overwrites(ops, mine, theirs, f2) ==
    (last'.op \in ops /\ last'.ret # RetBool(FALSE)) =>
        /\ FileHolds(f2, mine)
        /\ \A k \in Keys(theirs) \ Keys(mine) : ~Has(f2[1], k)

\* C16: when two store instances have loaded the same file and each then
\* performs a mutation, the file after the second write holds exactly the
\* second writer's in-memory mapping; the first writer's change is absent.
C16_LastWriterWins ==
    [][/\ C16_Overwrites({"create_task", "delete_task"}, tasks', other_tasks',
                          tasks_file')
       /\ C16_Overwrites({"other create_task", "other delete_task"},
                          other_tasks', tasks', tasks_file')]_vars

\* both instances started over the same absent file and each created a
\* task: the file holds the second writer's task and not the first's
C16_Witness ==
    /\ last.op = "other create_task"
    /\ Keys(tasks) = {"u1"}
    /\ Keys(other_tasks) = {"u2"}
    /\ Keys(tasks_file[1]) = {"u2"}

\* after a completed mutating operation of one store, the file holds the
\* whole mapping
C17_Saved(ops, store2, f2) ==
    (last'.op \in ops /\ last'.ret.kind \in {"ref", "True"}) =>
        FileHolds(f2, store2)

\* C17: after every completed mutating operation on a single store instance
\* (create, successful update, successful delete, start_timer, stop_timer
\* while running) the stored file equals the entire in-memory mapping of
\* that store.
C17_FileIsWholeMapping ==
    [][/\ C17_Saved({"create_task", "update_task", "delete_task"}, tasks',
                     tasks_file')
       /\ C17_Saved({"create_customer", "update_customer", "delete_customer"},
                     customers', customers_file')
       /\ C17_Saved({"create_department", "update_department",
                      "delete_department"}, departments', departments_file')
       /\ C17_Saved({"start_timer", "stop_timer", "update_time_entry",
                      "delete_time_entry"}, time_entries', te_file')]_vars

\* a second task was created: the file holds both tasks
C17_Witness ==
    /\ last.op = "create_task"
    /\ Len(tasks) = 2
    /\ Len(tasks_file[1]) = 2
    /\ tasks_file[1][1].val.id = "u1"
    /\ tasks_file[1][2].val.id = "u2"

---------------------------------------------------------------------------
(* Properties of the references between Customers, Departments and Tasks *)

\* the stored objects whose field names the identifier
Referring(store, field, id) ==
    {store[i].key : i \in {j \in DOMAIN store : store[j].val[field] = id}}

\* a delete of the core manager removes the entity it finds, whatever
\* refers to it
C20_Removes(op, store, store2) ==
    (last'.op = op /\ Has(store, last'.id)) =>
        /\ last'.ret = RetBool(TRUE)
        /\ ~Has(store2, last'.id)
        /\ tasks' = tasks

\* C20: CustomerManager.delete_customer(id) and
\* DepartmentManager.delete_department(id) return True and remove the entity
\* whenever id is present, even while Departments or Tasks refer to it, and
\* the referring entities are left unchanged, with a dangling identifier.
C20_CoreDeletesReferenced ==
    [][/\ C20_Removes("delete_customer", customers, customers')
       /\ last'.op = "delete_customer" => departments' = departments
       /\ C20_Removes("delete_department", departments, departments')
       /\ last'.op = "delete_department" => customers' = customers]_vars

\* a customer was deleted while a department referred to it: the
\* department is still stored and names a customer that is not
C20_Witness ==
    /\ last.op = "delete_customer"
    /\ last.ret = RetBool(TRUE)
    /\ ~Has(customers, last.id)
    /\ Referring(departments, "customer_id", last.id) # {}

\* C18: through the delete_customer route a Customer is removed only if at
\* that moment no Department and no Task has customer_id equal to its id;
\* when a dependent exists the route leaves all three stores unchanged.
C18_CustomerDeletedOnlyWithoutDependents ==
    [][(last'.op = "route_delete_customer" /\ Has(customers, last'.id)) =>
          LET dependents == Referring(departments, "customer_id", last'.id)
                            \cup Referring(tasks, "customer_id", last'.id)
          IN /\ ~Has(customers', last'.id) => dependents = {}
             /\ dependents # {} =>
                   UNCHANGED <<customerVars, departmentVars, taskVars>>]_vars

\* the route refused to delete a customer that a task names, and the
\* customer is still stored
C18_Witness ==
    /\ last.op = "route_delete_customer"
    /\ last.ret = Answered("refused")
    /\ Has(customers, last.id)
    /\ Referring(tasks, "customer_id", last.id) # {}
    /\ Referring(departments, "customer_id", last.id) = {}

\* C19: through the delete_department route a Department is removed only if
\* at that moment no Task has department_id equal to its id; when such a
\* Task exists the route leaves all stores unchanged.
C19_DepartmentDeletedOnlyWithoutTasks ==
    [][(last'.op = "route_delete_department" /\ Has(departments, last'.id)) =>
          LET dependents == Referring(tasks, "department_id", last'.id)
          IN /\ ~Has(departments', last'.id) => dependents = {}
             /\ dependents # {} =>
                   UNCHANGED <<customerVars, departmentVars, taskVars>>]_vars

\* the route refused to delete a department that a task names, and the
\* department is still stored
C19_Witness ==
    /\ last.op = "route_delete_department"
    /\ last.ret = Answered("refused")
    /\ Has(departments, last.id)
    /\ Referring(tasks, "department_id", last.id) # {}

---------------------------------------------------------------------------
(* Properties of the reports *)

ReportOps == {"report_customers", "report_departments"}

\* C21: when report_customers or report_departments lists at least one group
\* and the grand total is positive, the percentages of the listed groups sum
\* to 100, each being group_total / grand_total * 100 with grand_total the
\* sum of the listed totals.
C21_PercentagesSumTo100 ==
    (/\ last.op \in ReportOps
     /\ last.ret.kind = "rows"
     /\ last.ret.rows # <<>>
     /\ last.ret.total_hours > 0)
    => LET rows == last.ret.rows
           total == SumSeq([i \in DOMAIN rows |-> rows[i].total_hours])
       IN /\ last.ret.total_hours = total
          /\ \A i \in DOMAIN rows :
                /\ rows[i].percentage.den = total
                /\ rows[i].percentage.num = rows[i].total_hours * 100
          /\ SumSeq([i \in DOMAIN rows |-> rows[i].percentage.num]) = 100 * total

\* two customers are listed, with 60 and 40 per cent of five hours
C21_Witness ==
    /\ last.op = "report_customers"
    /\ last.ret.kind = "rows"
    /\ Len(last.ret.rows) = 2
    /\ last.ret.rows[1].percentage = [num |-> 300, den |-> 5]
    /\ last.ret.rows[2].percentage = [num |-> 200, den |-> 5]

AllReportOps == ReportOps \cup {"report_by_customer", "report_by_project"}

\* C22: whatever the stores hold (no tasks, hours that are all zero, negative
\* hours), the percentage computations of the web reports and of the console
\* reports never divide by zero, and when the grand total is zero every
\* listed group has percentage 0.
C22_NoDivisionByZero ==
    last.op \in AllReportOps
    => /\ last.ret.kind # "ZeroDivisionError"
       /\ (last.ret.kind = "rows" /\ last.ret.total_hours = 0)
          => \A i \in DOMAIN last.ret.rows :
                last.ret.rows[i].percentage = NoPercentage

\* the customer report has run on a customer whose tasks sum to no hours
C22_Witness ==
    /\ last.op = "report_customers"
    /\ last.ret.kind = "rows"
    /\ last.ret.total_hours = 0
    /\ \E i \in DOMAIN customers :
          /\ get_tasks_by_customer(customers[i].val.id) # <<>>
          /\ sum_hours(get_tasks_by_customer(customers[i].val.id)) = 0

---------------------------------------------------------------------------
(* Properties of the task lookups by customer and by department *)

\* the hours of the stored tasks whose identifiers are in S, added up
RECURSIVE HoursOf(_)
HoursOf(S) ==
    IF S = {} THEN 0
    ELSE LET k == CHOOSE x \in S : TRUE
         IN Get(tasks, k).hours + HoursOf(S \ {k})

\* the list holds the stored tasks with the identifiers in S, each once
ExactlyTheTasks(got, S) ==
    /\ {got[i].id : i \in DOMAIN got} = S
    /\ Len(got) = Cardinality(S)
    /\ \A i \in DOMAIN got : got[i] = Get(tasks, got[i].id)
    /\ sum_hours(got) = HoursOf(S)
    /\ S = {} => sum_hours(got) = 0

\* C23: after any sequence of create_task, update_task and delete_task,
\* get_tasks_by_customer(c) returns exactly the stored tasks whose current
\* customer_id is c, and get_tasks_by_department(d) exactly those whose
\* department_id is d, so their hours sum to the hours of the tasks now
\* assigned to c, and to 0 when there are none.
C23_LookupsFilterByForeignKey ==
    \A id \in ObjectIds :
        /\ ExactlyTheTasks(get_tasks_by_customer(id),
                           Referring(tasks, "customer_id", id))
        /\ ExactlyTheTasks(get_tasks_by_department(id),
                           Referring(tasks, "department_id", id))

\* two tasks were created for one customer and one of them was moved to
\* the other customer with other hours: each customer has one task
C23_Witness ==
    /\ last.op = "update_task"
    /\ Len(tasks) = 2
    /\ Len(get_tasks_by_customer("u1")) = 1
    /\ Len(get_tasks_by_customer("u2")) = 1
    /\ sum_hours(get_tasks_by_customer("u1")) = 2
    /\ sum_hours(get_tasks_by_customer("u2")) = 3
    /\ Len(get_tasks_by_department("u1")) = 2

---------------------------------------------------------------------------
(* Further properties of the TimeTracker *)

\* C24: in every state reachable through the TimeTracker operations (load,
\* start_timer, stop_timer, update_time_entry, delete_time_entry),
\* get_active_entry() returns None exactly when no entry of time_entries
\* has end_time None, and otherwise returns the entry of time_entries whose
\* end_time is None; it never returns a closed entry or one that is no
\* longer in the store.
C24_ActiveEntryIsTheOpenEntry ==
    /\ get_active_entry = None <=> OpenKeys(time_entries) = {}
    /\ get_active_entry # None =>
          /\ Len(get_active_entry) = 1
          /\ OpenKeys(time_entries) = {get_active_entry[1]}

\* C25: for entries produced by start_timer and stop_timer alone under a
\* clock that never goes back, the recorded intervals never overlap: every
\* closed entry has start_time <= end_time, and of any two entries the one
\* started earlier has an end_time, which is <= the start_time of the one
\* started later.
C25_IntervalsDoNotOverlap ==
    /\ \A i \in DOMAIN time_entries :
          time_entries[i].val.end_time # None =>
              fromisoformat(time_entries[i].val.start_time)
                  <= fromisoformat(time_entries[i].val.end_time)
    /\ \A i, j \in DOMAIN time_entries :
          i < j =>
              /\ fromisoformat(time_entries[i].val.start_time)
                    <= fromisoformat(time_entries[j].val.start_time)
              /\ time_entries[i].val.end_time # None
              /\ fromisoformat(time_entries[i].val.end_time)
                    <= fromisoformat(time_entries[j].val.start_time)

\* a timer ran for one tick and was replaced by a second one, started
\* while it ran and after the clock was read again
C25_Witness ==
    /\ last.op = "start_timer"
    /\ Len(time_entries) = 2
    /\ time_entries[1].val.start_time = isoformat(0)
    /\ time_entries[1].val.end_time = isoformat(1)
    /\ time_entries[2].val.start_time = isoformat(2)
    /\ time_entries[2].val.end_time = None

\* C26: a running timer survives a restart: when start_timer is called and
\* a new TimeTracker is then constructed over the same file, the active
\* entry of the new instance is that open entry, and a following stop_timer
\* (or start_timer) closes it in the file with duration_seconds equal to
\* end_time - start_time in whole seconds, leaving no open entry behind
\* other than a newly started one.
C26_RunningTimerSurvivesRestart ==
    [][/\ (last.op = "start_timer" /\ last'.op = "TimeTracker")
            => active_entry' = <<last.ret.ref>>
       /\ (/\ last.op = "TimeTracker"
           /\ active_entry # None
           /\ last'.op \in {"stop_timer", "start_timer"})
            => LET closed == Get(te_file'[1], active_entry[1])
               IN /\ closed.end_time # None
                  /\ closed.duration_seconds =
                        WholeSeconds(fromisoformat(closed.end_time)
                                     - fromisoformat(closed.start_time))
                  /\ OpenKeys(te_file'[1]) \subseteq
                        (IF last'.op = "start_timer" THEN {last'.ret.ref} ELSE {})]_vars

\* C27: delete_time_entry(id) on the running entry (the entry with the
\* identifier of the one get_active_entry() returns) removes it and makes
\* the timer idle (get_active_entry() returns None); on any other existing
\* entry it removes only that entry and leaves the active entry and all
\* other entries unchanged.
C27_DeleteTimeEntryFrame ==
    [][(last'.op = "delete_time_entry" /\ Has(time_entries, last'.id)) =>
          /\ last'.ret = RetBool(TRUE)
          /\ Keys(time_entries') = Keys(time_entries) \ {last'.id}
          /\ Len(time_entries') = Len(time_entries) - 1
          /\ \A k \in Keys(time_entries') :
                Get(time_entries', k) = Get(time_entries, k)
          /\ active_entry' =
                IF active_entry # None /\ active_entry[1] = last'.id
                THEN None ELSE active_entry]_vars

---------------------------------------------------------------------------
(* Properties of the stores behind the routes and of the reports *)

\* C28: in every state reachable through the routes executed one at a time
\* (create, edit, delete of customers, departments and tasks), the
\* customer_id of every task names an existing customer, its department_id
\* names an existing department, and that department belongs to the
\* task's customer.
C28_TasksNameExistingEntities ==
    \A i \in DOMAIN tasks :
        /\ Has(customers, tasks[i].val.customer_id)
        /\ Has(departments, tasks[i].val.department_id)
        /\ Get(departments, tasks[i].val.department_id).customer_id
              = tasks[i].val.customer_id

\* C29: the grand total reported by report_customers (the sum of the listed
\* customers' total_hours) equals the sum of the hours of all tasks in the
\* TaskManager, for every reachable content of the customer and task
\* stores; no task's hours are left out of the report.
C29_GrandTotalIsAllTaskHours ==
    (last.op = "report_customers" /\ last.ret.kind = "rows")
    => /\ last.ret.total_hours
             = SumSeq([i \in DOMAIN last.ret.rows |-> last.ret.rows[i].total_hours])
       /\ last.ret.total_hours = SumSeq([i \in DOMAIN tasks |-> tasks[i].val.hours])

\* the rows list, each once, the entities of the store whose tasks (those
\* naming the entity in the given field) sum to more than 0 hours, under the
\* entity's name, with that sum and the number of those tasks
RowsOf(rows, store, field, label) ==
    /\ Len(rows) = Cardinality({i \in DOMAIN store :
                        HoursOf(Referring(tasks, field, store[i].key)) > 0})
    /\ \E f \in [DOMAIN rows -> DOMAIN store] :
          /\ \A r1, r2 \in DOMAIN rows : f[r1] = f[r2] => r1 = r2
          /\ \A r \in DOMAIN rows :
                LET named == Referring(tasks, field, store[f[r]].key)
                IN /\ rows[r][label] = store[f[r]].val.name
                   /\ rows[r].total_hours = HoursOf(named)
                   /\ rows[r].task_count = Cardinality(named)

\* C30: the rows of report_customers and report_departments are ordered by
\* total_hours, non-increasing, and each listed row has total_hours > 0 and
\* a task_count equal to the number of stored tasks that refer to that
\* customer (or department).
C30_RowsSortedPositiveCounted ==
    (last.op \in ReportOps /\ last.ret.kind = "rows")
    => LET rows == last.ret.rows
       IN /\ \A i, j \in DOMAIN rows :
                i < j => rows[i].total_hours >= rows[j].total_hours
          /\ \A i \in DOMAIN rows : rows[i].total_hours > 0
          /\ last.op = "report_customers"
                => RowsOf(rows, customers, "customer_id", "customer")
          /\ last.op = "report_departments"
                => RowsOf(rows, departments, "department_id", "department")

\* the customer created second has more hours than the one created first
\* and is listed first
C30_Witness ==
    /\ last.op = "report_customers"
    /\ last.ret.kind = "rows"
    /\ Len(customers) = 2
    /\ customers[1].val.name = "Acme"
    /\ customers[2].val.name = "Apex"
    /\ Len(last.ret.rows) = 2
    /\ last.ret.rows[1].customer = "Apex"
    /\ last.ret.rows[1].total_hours = 3
    /\ last.ret.rows[2].customer = "Acme"
    /\ last.ret.rows[2].total_hours = 2

=============================================================================
